---- MODULE Spec2Model ----
(***************************************************************************)
(* ProcessFlow AI (src/app.py): a Streamlit script that sends a process    *)
(* description to a completion endpoint, stores the returned diagram JSON  *)
(* and BPMN XML in the session state and renders the JSON with Graphviz.   *)
(*                                                                         *)
(* Python values are modelled as follows.  A value that can be of several  *)
(* Python types (a session field, a parsed JSON body) is a tagged record:  *)
(* None, Str(s), Number(n), List(seq), Dict(items) or a Digraph.  Inside a    *)
(* diagram the swimlane, node and edge dicts are TLA+ functions from field *)
(* names to strings (a missing key is a name outside the DOMAIN) and lists *)
(* are sequences.  A Python call that may raise returns Return(v) or       *)
(* Raise(exception).                                                       *)
(***************************************************************************)
EXTENDS Integers, Sequences, FiniteSets, TLC

VARIABLES
    session_state,   \* st.session_state: diagram_generated, diagram_data, bpmn_xml, graph_obj
    client,          \* module-level client of the current script run (None when construction failed)
    user_input,      \* content of the text area, a sequence of characters
    endpoint,        \* what the completion endpoint did in the current script run
    api_calls,       \* number of client.chat.completions.create calls in the current script run
    outcome,         \* how the current script run ended
    last_success,    \* history: structured_output of the most recent successful generation
    render_in,       \* argument of a direct generate_bpmn_diagram call
    render_out       \* its result

vars == <<session_state, client, user_input, endpoint, api_calls, outcome,
          last_success, render_in, render_out>>

-----------------------------------------------------------------------------
(* Python values *)

None == [type |-> "NoneType"]

Str(s) == [type |-> "str", value |-> s]

Number(n) == [type |-> "int", value |-> n]

List(seq) == [type |-> "list", elems |-> seq]

Dict(items) == [type |-> "dict", items |-> items]

Return(v) == [raised |-> FALSE, value |-> v]

Raise(e) == [raised |-> TRUE, exc |-> e]

\* dict.get(key, default)
Get(d, key, default) == IF key \in DOMAIN d THEN d[key] ELSE default

\* bool(value)
Truthy(v) ==
    CASE v.type = "NoneType" -> FALSE
      [] v.type = "str" -> v.value # ""
      [] v.type = "int" -> v.value # 0
      [] v.type = "list" -> v.elems # <<>>
      [] v.type = "dict" -> DOMAIN v.items # {}
      [] OTHER -> TRUE

-----------------------------------------------------------------------------
(* generate_bpmn_diagram *)

colors == <<"#E3F2FD", "#F3E5F5", "#E8F5E9", "#FFF3E0", "#FCE4EC">>

\* dot.attr(kw, **attrs): one attribute statement of a graph body
AttrStatement(kw, attrs) == [stmt |-> "attr", kw |-> kw, attrs |-> attrs]

\* c.node(name, **attrs)
NodeCall(name, attrs) == [stmt |-> "node", name |-> name, attrs |-> attrs]

\* dot.edge(tail_name, head_name, label)
EdgeCall(tail_name, head_name, label) ==
    [stmt |-> "edge", tail_name |-> tail_name, head_name |-> head_name,
     attrs |-> [label |-> label]]

\* the three global attribute statements of lines 132-134
GlobalAttrs ==
    << AttrStatement("graph", [rankdir |-> "LR", splines |-> "ortho", nodesep |-> "0.8",
                               ranksep |-> "1.5", bgcolor |-> "transparent"]),
       AttrStatement("node", [fontname |-> "Arial", fontsize |-> "11"]),
       AttrStatement("edge", [fontname |-> "Arial", fontsize |-> "9", color |-> "#555555"]) >>

\* variant: the chain without its message branch
NodeStyle_NoMessage(node_type, label) ==
    CASE node_type = "start_event" ->
           [label |-> label, shape |-> "circle", style |-> "filled", fillcolor |-> "#4CAF50",
            fontcolor |-> "white", width |-> "0.6", height |-> "0.6", fixedsize |-> "true"]
      [] node_type = "end_event" ->
           [label |-> label, shape |-> "doublecircle", style |-> "filled",
            fillcolor |-> "#F44336", fontcolor |-> "white", width |-> "0.6",
            height |-> "0.6", fixedsize |-> "true"]
      [] node_type = "task" ->
           [label |-> label, shape |-> "box", style |-> "rounded,filled",
            fillcolor |-> "#2196F3", fontcolor |-> "white"]
      [] node_type = "gateway" ->
           [label |-> label, shape |-> "diamond", style |-> "filled",
            fillcolor |-> "#FFC107", fontcolor |-> "black"]
      [] OTHER ->
           [label |-> label, shape |-> "box", style |-> "rounded,filled",
            fillcolor |-> "#9E9E9E", fontcolor |-> "white"]

\* the attributes chosen by the if/elif chain on node_type
NodeStyle(node_type, label) ==
    CASE node_type = "start_event" ->
           [label |-> label, shape |-> "circle", style |-> "filled", fillcolor |-> "#4CAF50",
            fontcolor |-> "white", width |-> "0.6", height |-> "0.6", fixedsize |-> "true"]
      [] node_type = "end_event" ->
           [label |-> label, shape |-> "doublecircle", style |-> "filled",
            fillcolor |-> "#F44336", fontcolor |-> "white", width |-> "0.6",
            height |-> "0.6", fixedsize |-> "true"]
      [] node_type = "task" ->
           [label |-> label, shape |-> "box", style |-> "rounded,filled",
            fillcolor |-> "#2196F3", fontcolor |-> "white"]
      [] node_type = "gateway" ->
           [label |-> label, shape |-> "diamond", style |-> "filled",
            fillcolor |-> "#FFC107", fontcolor |-> "black"]
      [] node_type = "message" ->
           [label |-> label, shape |-> "note", style |-> "filled",
            fillcolor |-> "#FF9800", fontcolor |-> "white"]
      [] OTHER ->
           [label |-> label, shape |-> "box", style |-> "rounded,filled",
            fillcolor |-> "#9E9E9E", fontcolor |-> "white"]

\* one iteration of the inner loop: node["id"] and node["label"] raise KeyError when absent
NodeStatement(node) ==
    LET node_type == Get(node, "type", "task")
    IN  IF "id" \notin DOMAIN node \/ "label" \notin DOMAIN node
        THEN Raise("KeyError")
        ELSE Return(NodeCall(node["id"], NodeStyle(node_type, node["label"])))

\* the swimlane a node is grouped under: node.get("swimlane", "default")
SwimlaneOf(node) == Get(node, "swimlane", "default")

\* variant: the grouping loop without its membership test
GroupNodes_All(nodes, swimlane_id) == nodes

\* swimlane_nodes[swimlane_id] after the grouping loop: the nodes of that swimlane, in input order
GroupNodes(nodes, swimlane_id) ==
    LET Member(node) == SwimlaneOf(node) = swimlane_id
    IN  SelectSeq(nodes, Member)

\* variant: the index clamped to the palette instead of wrapped
ClusterColor_Clamped(idx) == colors[IF idx < Len(colors) THEN idx + 1 ELSE Len(colors)]

\* fillcolor of the cluster at 0-based position idx: colors[idx % len(colors)]
ClusterColor(idx) == colors[(idx % Len(colors)) + 1]

\* one iteration of the outer loop: the subgraph of the swimlane at 0-based position idx;
\* swimlane["label"] raises KeyError when absent
Cluster(idx, swimlane, members) ==
    LET stmts == [j \in DOMAIN members |-> NodeStatement(members[j])]
    IN  IF "label" \notin DOMAIN swimlane
        THEN Raise("KeyError")
        ELSE IF \E j \in DOMAIN stmts : stmts[j].raised
        THEN Raise("KeyError")
        ELSE Return([stmt |-> "subgraph",
                     name |-> "cluster_" \o swimlane["id"],
                     body |-> << AttrStatement("", [label |-> swimlane["label"],
                                                    style |-> "filled",
                                                    color |-> "#666666",
                                                    fillcolor |-> ClusterColor(idx),
                                                    fontsize |-> "14",
                                                    fontname |-> "Arial Bold"]) >>
                                 \o [j \in DOMAIN stmts |-> stmts[j].value]])

\* variant: tail and head exchanged
EdgeStatement_Reversed(edge) ==
    IF "from" \notin DOMAIN edge \/ "to" \notin DOMAIN edge
    THEN Raise("KeyError")
    ELSE Return(EdgeCall(edge["to"], edge["from"], Get(edge, "label", "")))

\* the edge loop: edge["from"] and edge["to"] raise KeyError when absent
EdgeStatement(edge) ==
    IF "from" \notin DOMAIN edge \/ "to" \notin DOMAIN edge
    THEN Raise("KeyError")
    ELSE Return(EdgeCall(edge["from"], edge["to"], Get(edge, "label", "")))

generate_bpmn_diagram(diagram_data) ==
    IF diagram_data.type # "dict"
    THEN Raise("AttributeError")        \* diagram_data.get on a value that is no dict
    ELSE
    LET swimlanes == Get(diagram_data.items, "swimlanes", <<>>)
        nodes     == Get(diagram_data.items, "nodes", <<>>)
        edges     == Get(diagram_data.items, "edges", <<>>)
    IN  IF \E i \in DOMAIN swimlanes : "id" \notin DOMAIN swimlanes[i]
        THEN Raise("KeyError")          \* the dict comprehension over sl["id"]
        ELSE
        LET clusters == [i \in DOMAIN swimlanes |->
                            Cluster(i - 1, swimlanes[i], GroupNodes(nodes, swimlanes[i]["id"]))]
            connectors == [e \in DOMAIN edges |-> EdgeStatement(edges[e])]
        IN  IF \E i \in DOMAIN clusters : clusters[i].raised
            THEN Raise("KeyError")
            ELSE IF \E e \in DOMAIN connectors : connectors[e].raised
            THEN Raise("KeyError")
            ELSE Return([type |-> "Digraph",
                         comment |-> "BPMN Process Flow",
                         body |-> GlobalAttrs
                                  \o [i \in DOMAIN clusters |-> clusters[i].value]
                                  \o [e \in DOMAIN connectors |-> connectors[e].value]])

-----------------------------------------------------------------------------
(* get_structured_process_flow and the generate branch of main *)

\* the client constructed at module level, and None when its construction raised
OpenAIClient == [type |-> "OpenAI"]

\* the completion endpoint was not consulted in this script run
NotCalled == [kind |-> "not_called"]

MinDescriptionLength == 20

Whitespace == {" ", "\n"}

RECURSIVE LStrip(_)
LStrip(s) == IF s = <<>> \/ Head(s) \notin Whitespace THEN s ELSE LStrip(Tail(s))

RECURSIVE RStrip(_)
RStrip(s) ==
    IF s = <<>> \/ s[Len(s)] \notin Whitespace THEN s ELSE RStrip(SubSeq(s, 1, Len(s) - 1))

\* str.strip()
Strip(s) == RStrip(LStrip(s))

\* disabled=(not user_input.strip()) on the generate button
ButtonEnabled(text) == Strip(text) # <<>>

\* variant: the length test applied to the raw text
PassesLengthCheck_NoStrip(text) == ~(Len(text) < MinDescriptionLength)

\* the negation of len(user_input.strip()) < 20
PassesLengthCheck(text) == ~(Len(Strip(text)) < MinDescriptionLength)

\* what get_structured_process_flow returns, and the number of endpoint calls it made:
\* None without a call when there is no client, None when the call or json.loads raises,
\* the parsed body otherwise
get_structured_process_flow(cl, ep) ==
    IF ~Truthy(cl)
    THEN [value |-> None, calls |-> 0]
    ELSE CASE ep.kind = "raises"       -> [value |-> None, calls |-> 1]
           [] ep.kind = "invalid_json" -> [value |-> None, calls |-> 1]
           [] ep.kind = "json"         -> [value |-> ep.value, calls |-> 1]

\* key in container: a dict tests its keys, a list its elements, an int is not iterable
In(key, container) ==
    CASE container.type = "dict" -> Return(key \in DOMAIN container.items)
      [] container.type = "list" ->
           Return(\E i \in DOMAIN container.elems : container.elems[i] = Str(key))
      [] OTHER -> Raise("TypeError")

\* structured_output and "diagram_json" in structured_output and "bpmn_xml" in structured_output
HasBothKeys(structured_output) ==
    IF ~Truthy(structured_output)
    THEN Return(FALSE)
    ELSE LET a == In("diagram_json", structured_output)
             b == In("bpmn_xml", structured_output)
         IN  IF a.raised THEN a
             ELSE IF ~a.value THEN Return(FALSE)
             ELSE b

\* container[key] with a str key: only a dict can be subscripted so
Subscript(container, key) ==
    IF container.type = "dict"
    THEN (IF key \in DOMAIN container.items
          THEN Return(container.items[key]) ELSE Raise("KeyError"))
    ELSE Raise("TypeError")

RunResult(ss, calls, how) == [session_state |-> ss, api_calls |-> calls, outcome |-> how]

\* variant: the else branch also clears the stored diagram
FailureBranch_Clears(ss) ==
    [ss EXCEPT !.diagram_generated = FALSE, !.diagram_data = None, !.bpmn_xml = None,
               !.graph_obj = None]

\* the else branch: st.error and diagram_generated = False
FailureBranch(ss) == [ss EXCEPT !.diagram_generated = FALSE]

\* the if branch: the four assignments in program order; an exception ends the script
\* run and keeps the assignments already made
SuccessBranch(ss, structured_output, calls) ==
    LET dj == Subscript(structured_output, "diagram_json")
        bx == Subscript(structured_output, "bpmn_xml")
    IN  IF dj.raised THEN RunResult(ss, calls, "exception")
        ELSE
        LET s1 == [ss EXCEPT !.diagram_data = dj.value]
        IN  IF bx.raised THEN RunResult(s1, calls, "exception")
            ELSE
            LET s2  == [s1 EXCEPT !.bpmn_xml = bx.value]
                dot == generate_bpmn_diagram(s2.diagram_data)
            IN  IF dot.raised THEN RunResult(s2, calls, "exception")
                ELSE RunResult([s2 EXCEPT !.graph_obj = dot.value,
                                          !.diagram_generated = TRUE],
                               calls, "success")

\* if generate_button: ... of main
OnGenerate(ss, text, cl, ep) ==
    IF ~PassesLengthCheck(text)
    THEN RunResult(ss, 0, "warning")
    ELSE
    LET got == get_structured_process_flow(cl, ep)
        ok  == HasBothKeys(got.value)
    IN  IF ok.raised THEN RunResult(ss, got.calls, "exception")
        ELSE IF ok.value THEN SuccessBranch(ss, got.value, got.calls)
        ELSE RunResult(FailureBranch(ss), got.calls, "error")

-----------------------------------------------------------------------------
(* Inputs *)

MaxPad == 1

MaxSwimlanes == 6

MaxNodes == 2

MaxEdges == 1

MaxMalformedLanes == 2

Repeat(c, n) == [i \in 1..n |-> c]

SeqsUpTo(S, n) == UNION {[1..m -> S] : m \in 0..n}

\* the dict full without the keys in drop
Without(full, drop) == [k \in (DOMAIN full) \ drop |-> full[k]]

\* full with every subset of the optional keys left out
Partial(full, optional) == {Without(full, drop) : drop \in SUBSET optional}

\* text-area contents: a core of non-blank characters between leading spaces and
\* trailing newlines
Descriptions ==
    {Repeat(" ", p) \o Repeat("x", b) \o Repeat("\n", p) :
        p \in {0, MaxPad},
        b \in {0, 1, MinDescriptionLength - 1, MinDescriptionLength}}

Clients == {OpenAIClient, None}

Lane(id) == [id |-> id, label |-> "Lane " \o id]

OrderGraph ==
    Dict([swimlanes |-> <<Lane("customer")>>,
          nodes |-> <<[id |-> "start", label |-> "Order placed", type |-> "start_event",
                       swimlane |-> "customer"]>>,
          edges |-> <<>>])

ReviewGraph ==
    Dict([swimlanes |-> <<Lane("customer"), Lane("agent")>>,
          nodes |-> <<[id |-> "start", label |-> "Request", type |-> "start_event",
                       swimlane |-> "customer"],
                      [id |-> "check", label |-> "Approve?", type |-> "gateway",
                       swimlane |-> "agent"]>>,
          edges |-> <<[from |-> "start", to |-> "check", label |-> "Submitted"]>>])

\* a diagram_json whose swimlane has no "id"
BrokenGraph ==
    Dict([swimlanes |-> <<[label |-> "Customer"]>>, nodes |-> <<>>, edges |-> <<>>])

XmlValues == {Str("<definitions id=\"order\"/>"), Str("<definitions id=\"review\"/>")}

\* parsed response bodies that carry both keys
CompleteBodies ==
    {Dict([diagram_json |-> g, bpmn_xml |-> x]) : g \in {OrderGraph, ReviewGraph}, x \in XmlValues}
    \cup {Dict([diagram_json |-> g, bpmn_xml |-> Str("<definitions id=\"review\"/>")]) :
             g \in {BrokenGraph, None}}

\* parsed response bodies of every other shape
OtherBodies ==
    { None, Dict(<<>>), Number(1),
      Dict([error |-> Str("overloaded")]),
      Dict([diagram_json |-> OrderGraph]),
      Dict([bpmn_xml |-> Str("<definitions id=\"order\"/>")]),
      List(<<Str("diagram_json"), Str("bpmn_xml")>>) }

Endpoints ==
    {[kind |-> "raises"], [kind |-> "invalid_json"]}
    \cup {[kind |-> "json", value |-> v] : v \in CompleteBodies \cup OtherBodies}

SwimlaneIdList ==
    <<"customer", "agent", "system", "driver", "manager", "default", "billing", "support">>

Rotate(s, k) == [i \in 1..Len(s) |-> s[((i + k - 1) % Len(s)) + 1]]

\* up to MaxSwimlanes swimlanes with distinct ids, in every rotation
WideSwimlanes ==
    UNION {{Rotate([i \in 1..n |-> Lane(SwimlaneIdList[i])], k) :
                k \in 0..(IF n = 0 THEN 0 ELSE n - 1)} : n \in 0..MaxSwimlanes}

NodeTypes == {"start_event", "end_event", "task", "gateway", "message"}

WideGraphs ==
    {Dict([swimlanes |-> sl, nodes |-> ns, edges |-> es]) :
        sl \in WideSwimlanes,
        ns \in SeqsUpTo({[id |-> "n1", label |-> "Step", type |-> "task", swimlane |-> w] :
                            w \in {"customer", "billing"}},
                        MaxNodes),
        es \in SeqsUpTo({[from |-> "n1", to |-> "n2", label |-> "Yes"]}, MaxEdges)}

\* nodes of every type, of an unknown type and without a type
TypedGraphs ==
    {Dict([swimlanes |-> <<Lane("customer"), Lane("agent")>>, nodes |-> ns, edges |-> <<>>]) :
        ns \in SeqsUpTo(UNION {Partial([id |-> "n1", label |-> "Step", type |-> t,
                                        swimlane |-> w], {"type"}) :
                                  t \in NodeTypes \cup {"subprocess"},
                                  w \in {"customer", "ghost"}},
                        MaxNodes)}

\* swimlanes that lack fields or repeat an id
MalformedLaneGraphs ==
    {Dict([swimlanes |-> sl, nodes |-> ns, edges |-> <<>>]) :
        sl \in SeqsUpTo(UNION {Partial([id |-> i, label |-> "Lane"], {"id", "label"}) :
                                  i \in {"customer", "default"}},
                        MaxMalformedLanes),
        ns \in {<<>>,
                <<[id |-> "n1", label |-> "Step", type |-> "task", swimlane |-> "customer"]>>,
                <<[id |-> "n1", label |-> "Step", type |-> "task"]>>}}

\* nodes that lack a field or name a swimlane that does not exist
MalformedNodes ==
    UNION {Partial([id |-> i, label |-> "Step " \o i, type |-> "task", swimlane |-> "customer"],
                   {"swimlane"}) : i \in {"n1", "n2"}}
    \cup {[id |-> i, label |-> "Step " \o i, type |-> "task", swimlane |-> "ghost"] :
             i \in {"n1", "n2"}}
    \cup {[label |-> "Step", type |-> "task", swimlane |-> w] : w \in {"customer", "ghost"}}
    \cup {[id |-> "n1", type |-> "task", swimlane |-> w] : w \in {"customer", "ghost"}}

MalformedNodeGraphs ==
    {Dict([swimlanes |-> sl, nodes |-> ns, edges |-> es]) :
        sl \in {<<Lane("customer")>>, <<Lane("customer"), Lane("default")>>},
        ns \in SeqsUpTo(MalformedNodes, MaxNodes),
        es \in {<<>>, <<[from |-> "n1", to |-> "nowhere"]>>}}

\* edges that lack fields or name nodes that do not exist
MalformedEdgeGraphs ==
    {Dict([swimlanes |-> <<Lane("customer")>>,
           nodes |-> <<[id |-> "n1", label |-> "Step", type |-> "task",
                        swimlane |-> "customer"]>>,
           edges |-> es]) :
        es \in SeqsUpTo(UNION {Partial([from |-> f, to |-> "n1", label |-> "Yes"],
                                       {"from", "to", "label"}) : f \in {"n1", "ghost"}},
                        MaxEdges)}

\* diagram dicts that lack top-level keys, and a diagram_data that is no dict
SparseGraphs ==
    {None} \cup {Dict(d) : d \in Partial(ReviewGraph.items, {"swimlanes", "nodes", "edges"})}

RenderInputs ==
    WideGraphs \cup TypedGraphs \cup MalformedLaneGraphs \cup MalformedNodeGraphs
    \cup MalformedEdgeGraphs \cup SparseGraphs

-----------------------------------------------------------------------------
(* The script as a state machine *)

\* the session after the first script run: the block under
\* if "diagram_generated" not in st.session_state
InitialSession ==
    [diagram_generated |-> FALSE, diagram_data |-> None, bpmn_xml |-> None,
     graph_obj |-> None]

InitSession ==
    /\ session_state = InitialSession
    /\ client \in Clients
    /\ user_input = <<>>
    /\ endpoint = NotCalled
    /\ api_calls = 0
    /\ outcome = "idle"
    /\ last_success = None

Init ==
    /\ InitSession
    /\ render_in = None
    /\ render_out = None

\* a script run with the generate button clicked: the text area holds text, the module
\* level constructed cl, and the endpoint, if called, behaves as ep
Generate(text, cl, ep) ==
    /\ ButtonEnabled(text)
    /\ LET run == OnGenerate(session_state, text, cl, ep)
       IN  /\ session_state' = run.session_state
           /\ api_calls' = run.api_calls
           /\ outcome' = run.outcome
           /\ endpoint' = IF run.api_calls = 0 THEN NotCalled ELSE ep
           /\ last_success' = IF run.outcome = "success" THEN ep.value ELSE last_success
    /\ user_input' = text
    /\ client' = cl
    /\ UNCHANGED <<render_in, render_out>>

\* a script run without the click (the text was edited, a download was taken)
Rerun(text, cl) ==
    /\ user_input' = text
    /\ client' = cl
    /\ endpoint' = NotCalled
    /\ api_calls' = 0
    /\ outcome' = "idle"
    /\ UNCHANGED <<session_state, last_success, render_in, render_out>>

Next ==
    \/ \E text \in Descriptions, cl \in Clients, ep \in Endpoints : Generate(text, cl, ep)
    \/ \E text \in Descriptions, cl \in Clients : Rerun(text, cl)

Spec == Init /\ [][Next]_vars

\* generate_bpmn_diagram called on its own
InitRender ==
    /\ InitSession
    /\ client = OpenAIClient
    /\ render_in \in RenderInputs
    /\ render_out = None

Render ==
    /\ render_out = None
    /\ render_out' = generate_bpmn_diagram(render_in)
    /\ UNCHANGED <<session_state, client, user_input, endpoint, api_calls, outcome,
                   last_success, render_in>>

NextRender == Render

RenderSpec == InitRender /\ [][NextRender]_vars

-----------------------------------------------------------------------------
(* Properties of the generate request *)

\* the last script run was a generate click
Clicked == outcome # "idle"

\* the last script run was a generate click whose description passed the length check
PastGate == outcome \notin {"idle", "warning"}

\* a parsed body that is no JSON object with both top-level keys
LacksKey(body) ==
    \/ body.type # "dict"
    \/ "diagram_json" \notin DOMAIN body.items
    \/ "bpmn_xml" \notin DOMAIN body.items

\* the last script run passed the length check and its extraction failed: there was no
\* client, the call raised, the body was not JSON, or the body lacked a key
ExtractionFailed ==
    /\ PastGate
    /\ \/ client = None
       \/ endpoint.kind \in {"raises", "invalid_json"}
       \/ endpoint.kind = "json" /\ LacksKey(endpoint.value)

StoredTriple(ss) == <<ss.diagram_data, ss.bpmn_xml, ss.graph_obj>>

\* C1: a generate request whose extraction fails is reported as a failure (the error
\* message of the else branch, or the uncaught exception Streamlit shows) and leaves
\* the stored diagram_data, bpmn_xml and graph_obj exactly as they were, whatever
\* requests came before.
C1_FailedExtractionKeepsStored ==
    [][ExtractionFailed' =>
          /\ outcome' \in {"error", "exception"}
          /\ StoredTriple(session_state') = StoredTriple(session_state)]_vars

\* a failed extraction after an earlier success, the earlier triple still stored
C1_Witness ==
    /\ outcome = "error"
    /\ endpoint.kind = "invalid_json"
    /\ session_state.diagram_data = ReviewGraph
    /\ session_state.bpmn_xml # None
    /\ session_state.graph_obj # None

\* C2: the stored triple is replaced atomically: in every reachable state all three are
\* unset, or diagram_data and bpmn_xml are the two values of one response and graph_obj
\* is the rendering of that diagram_data.
C2_TripleIsAtomic ==
    \/ StoredTriple(session_state) = <<None, None, None>>
    \/ /\ \E b \in CompleteBodies :
             /\ session_state.diagram_data = b.items["diagram_json"]
             /\ session_state.bpmn_xml = b.items["bpmn_xml"]
       /\ LET dot == generate_bpmn_diagram(session_state.diagram_data)
          IN  ~dot.raised /\ session_state.graph_obj = dot.value

\* C4: the download is enabled only if an earlier generate request succeeded, and the
\* bpmn_xml offered is then the bpmn_xml value of the most recent successful response.
C4_DownloadIsLastSuccess ==
    session_state.diagram_generated =>
        /\ last_success # None
        /\ session_state.bpmn_xml = last_success.items["bpmn_xml"]

\* C5 as stated: a click calls the endpoint exactly once when the stripped description
\* has at least 20 characters, and otherwise makes no call and changes no state.
C5_OneCallIffLongEnough ==
    [][Clicked' =>
          IF Len(Strip(user_input')) >= 20
          THEN api_calls' = 1
          ELSE api_calls' = 0 /\ session_state' = session_state]_vars

\* C5 amended: a click calls the endpoint exactly once when the stripped description has
\* at least 20 characters and the client was constructed; with no client, or with a
\* shorter description, it makes no call, and a shorter description changes no state.
C5_OneCallIffLongEnoughAndClient ==
    [][Clicked' =>
          /\ api_calls' = (IF Len(Strip(user_input')) >= 20 /\ client' # None THEN 1 ELSE 0)
          /\ Len(Strip(user_input')) < 20 => session_state' = session_state]_vars

\* a padded description that passes the check, one call, a failure and no second call
C5_Witness ==
    /\ outcome = "error"
    /\ endpoint.kind = "raises"
    /\ api_calls = 1
    /\ Len(Strip(user_input)) < Len(user_input)

\* C10: after a generate request that passes the length check and fails in extraction,
\* diagram_generated is false although the triple is still stored, and
\* diagram_generated turns true only in a successful request.
C10_FailedExtractionClearsFlag ==
    [][/\ ExtractionFailed' =>
             /\ ~session_state'.diagram_generated
             /\ StoredTriple(session_state') = StoredTriple(session_state)
       /\ (~session_state.diagram_generated /\ session_state'.diagram_generated)
             => outcome' = "success"]_vars

-----------------------------------------------------------------------------
(* Properties of generate_bpmn_diagram *)

Rendered == render_out # None

RenderReturned == Rendered /\ ~render_out.raised

InSwimlanes == Get(render_in.items, "swimlanes", <<>>)

InNodes == Get(render_in.items, "nodes", <<>>)

InEdges == Get(render_in.items, "edges", <<>>)

InSwimlaneIds == {InSwimlanes[i]["id"] : i \in DOMAIN InSwimlanes}

\* every field the schema requires without a default is present
RequiredFields ==
    /\ render_in.type = "dict"
    /\ \A i \in DOMAIN InSwimlanes : {"id", "label"} \subseteq DOMAIN InSwimlanes[i]
    /\ \A n \in DOMAIN InNodes : {"id", "label"} \subseteq DOMAIN InNodes[n]
    /\ \A e \in DOMAIN InEdges : {"from", "to"} \subseteq DOMAIN InEdges[e]

ValidGraph ==
    /\ RequiredFields
    /\ \A i, j \in DOMAIN InSwimlanes :
          InSwimlanes[i]["id"] = InSwimlanes[j]["id"] => i = j

IsSubgraph(statement) == statement.stmt = "subgraph"

\* the clusters of the returned diagram, in output order
OutClusters == SelectSeq(render_out.value.body, IsSubgraph)

\* the node statements of a cluster, after its attribute statement
ClusterNodes(cluster) == Tail(cluster.body)

ClusterFill(cluster) == cluster.body[1].attrs.fillcolor

\* C3: for every input dict, whatever fields its swimlanes, nodes and edges lack,
\* generate_bpmn_diagram returns a diagram instead of raising.
C3_RenderNeverRaises ==
    (Rendered /\ render_in.type = "dict") => ~render_out.raised

\* C6: for a valid graph (required fields present, swimlane ids unique) the call returns,
\* the output has exactly one cluster per swimlane in the order of swimlanes, the
\* cluster at index i is filled with colors[i mod 5], and so the clusters at i and i+5
\* share a fill color.
C6_OneClusterPerSwimlane ==
    (Rendered /\ ValidGraph) =>
        /\ ~render_out.raised
        /\ Len(OutClusters) = Len(InSwimlanes)
        /\ \A i \in DOMAIN InSwimlanes :
              /\ OutClusters[i].name = "cluster_" \o InSwimlanes[i]["id"]
              /\ OutClusters[i].body[1].attrs.label = InSwimlanes[i]["label"]
              /\ ClusterFill(OutClusters[i]) = colors[((i - 1) % 5) + 1]
              /\ (i + 5) \in DOMAIN InSwimlanes =>
                    ClusterFill(OutClusters[i + 5]) = ClusterFill(OutClusters[i])

\* a valid graph with more swimlanes than the palette has colors
C6_Witness ==
    /\ RenderReturned
    /\ ValidGraph
    /\ Len(OutClusters) > Len(colors)

\* what a node statement shows of its node
Shown(statements) ==
    [j \in DOMAIN statements |-> <<statements[j].name, statements[j].attrs.label>>]

NodeKeys(selected) == [j \in DOMAIN selected |-> <<selected[j]["id"], selected[j]["label"]>>]

\* the nodes that carry a swimlane field equal to id, in input order
NamedIn(id) ==
    LET Test(node) == "swimlane" \in DOMAIN node /\ node["swimlane"] = id
    IN  SelectSeq(InNodes, Test)

\* the swimlane value of a node, "default" when the field is absent
LaneValue(node) == IF "swimlane" \in DOMAIN node THEN node["swimlane"] ELSE "default"

\* the nodes whose swimlane value is id, in input order
PlacedIn(id) ==
    LET Test(node) == LaneValue(node) = id
    IN  SelectSeq(InNodes, Test)

\* C7 as stated: the shapes of a swimlane's cluster are exactly the nodes whose swimlane
\* field equals that swimlane's id, in input order; a node without the field has no shape.
C7_ShapeIffSwimlaneNamed ==
    RenderReturned =>
        \A i \in DOMAIN InSwimlanes :
            Shown(ClusterNodes(OutClusters[i])) = NodeKeys(NamedIn(InSwimlanes[i]["id"]))

\* C7 amended: the shapes of a swimlane's cluster are exactly the nodes whose swimlane
\* value, taken as "default" when the field is absent, equals that swimlane's id, in
\* input order; and a node whose swimlane value matches no swimlane never makes the call
\* raise, whatever fields it lacks.
C7_ShapeIffSwimlaneValueMatches ==
    /\ RenderReturned =>
          \A i \in DOMAIN InSwimlanes :
              Shown(ClusterNodes(OutClusters[i])) = NodeKeys(PlacedIn(InSwimlanes[i]["id"]))
    /\ ( /\ Rendered
         /\ render_in.type = "dict"
         /\ \A i \in DOMAIN InSwimlanes : {"id", "label"} \subseteq DOMAIN InSwimlanes[i]
         /\ \A e \in DOMAIN InEdges : {"from", "to"} \subseteq DOMAIN InEdges[e]
         /\ \A n \in DOMAIN InNodes :
               LaneValue(InNodes[n]) \in InSwimlaneIds
                  => {"id", "label"} \subseteq DOMAIN InNodes[n] )
       => ~render_out.raised

\* a node without a swimlane field drawn in the cluster of the swimlane "default", next
\* to a dropped node that lacks its id
C7_Witness ==
    /\ RenderReturned
    /\ "default" \in InSwimlaneIds
    /\ \E n \in DOMAIN InNodes : "swimlane" \notin DOMAIN InNodes[n]
    /\ \E n \in DOMAIN InNodes :
          LaneValue(InNodes[n]) \notin InSwimlaneIds /\ "id" \notin DOMAIN InNodes[n]

\* the label of an edge, the empty string when the field is absent
EdgeLabel(edge) == IF "label" \in DOMAIN edge THEN edge["label"] ELSE ""

TypeStyle(node_type) ==
    CASE node_type = "start_event" -> <<"circle", "filled", "#4CAF50">>
      [] node_type = "end_event"   -> <<"doublecircle", "filled", "#F44336">>
      [] node_type = "task"        -> <<"box", "rounded,filled", "#2196F3">>
      [] node_type = "gateway"     -> <<"diamond", "filled", "#FFC107">>
      [] node_type = "message"     -> <<"note", "filled", "#FF9800">>
      [] OTHER                     -> <<"box", "rounded,filled", "#9E9E9E">>

\* C9: every rendered node that carries a type has the shape, style and fill color of
\* that type, the gray rounded box for a type outside the five; and no type value makes
\* the call raise.
C9_StyleByType ==
    /\ RenderReturned =>
          \A i \in DOMAIN InSwimlanes :
              LET placed == PlacedIn(InSwimlanes[i]["id"])
                  drawn  == ClusterNodes(OutClusters[i])
              IN  \A j \in DOMAIN placed :
                      "type" \in DOMAIN placed[j] =>
                          /\ j \in DOMAIN drawn
                          /\ <<drawn[j].attrs.shape, drawn[j].attrs.style,
                               drawn[j].attrs.fillcolor>> = TypeStyle(placed[j]["type"])
    /\ (Rendered /\ RequiredFields /\ \A n \in DOMAIN InNodes : "type" \in DOMAIN InNodes[n])
          => ~render_out.raised

\* a note for a message next to the gray box of an unknown type
C9_Witness ==
    /\ RenderReturned
    /\ \E i \in DOMAIN OutClusters :
          LET drawn == ClusterNodes(OutClusters[i])
          IN  /\ \E j \in DOMAIN drawn : drawn[j].attrs.fillcolor = "#9E9E9E"
              /\ \E j \in DOMAIN drawn : drawn[j].attrs.shape = "note"
    /\ \E n \in DOMAIN InNodes : Get(InNodes[n], "type", "task") = "subprocess"

====
